---- MODULE Spec2Model ----
(***************************************************************************)
(* Model of solver/solver.py: the Bloxorz block geometry (Pos, Block and   *)
(* its four tilts) and the breadth-first Solver built on it.               *)
(*                                                                         *)
(* The specifications share the variables:                                 *)
(*   Spec      a Solver object: construction, then calls of solve(), one   *)
(*             loop iteration per step;                                    *)
(*   GeomSpec  the Block value type on its own: one construction from two  *)
(*             arbitrary cells, then a bounded number of tilts.            *)
(*   OrderSpec a Solver whose neighbors() lists the tilts in a chosen      *)
(*             order: one whole call of solve() per step.                  *)
(* FairSpec is Spec with the fairness of a sequential loop that keeps      *)
(* running once solve() was entered.                                       *)
(***************************************************************************)
EXTENDS Integers, Sequences, FiniteSets

VARIABLES
    terrain,    \* Solver.terrain: the set of cells the predicate accepts
    start,      \* Solver.start
    goal,       \* Solver.goal
    fifo,       \* Solver.fifo: sequence of records (block, history)
    explored,   \* Solver.explored
    pc,         \* position of the Solver: "ready", "loop", "found" (line 109),
                \* "exhausted" (line 122), "raised" (an assertion propagated)
    result,     \* the list returned by the last finished solve()
    calls,      \* number of solve() calls started on this object
    dequeued,   \* history variable: the records the running (or last) call got
                \* from the queue, in order
    returns,    \* history variable: the lists returned by the finished calls
    order,      \* OrderSpec: the order in which the neighbours were enumerated
    args,       \* GeomSpec: the two cells handed to Block(...)
    origin,     \* GeomSpec: the Block that construction produced
    blk,        \* GeomSpec: the Block after the tilts applied so far
    tilts,      \* GeomSpec: the moves applied to origin so far
    raised      \* GeomSpec: the last operation raised AssertionError

solverVars == <<terrain, start, goal, fifo, explored, pc, result, calls,
                dequeued, returns, order>>
geomVars == <<args, origin, blk, tilts, raised>>
vars == <<terrain, start, goal, fifo, explored, pc, result, calls,
          dequeued, returns, order, args, origin, blk, tilts, raised>>

(***************************************************************************)
(* Bounds of the model.                                                    *)
(***************************************************************************)
MaxRow == 1
MaxCol == 2
MaxHoles == 1
MaxCalls == 2
GeomMax == 2
MaxTilts == 2

(***************************************************************************)
(* class Move                                                              *)
(***************************************************************************)
Move == {"UP", "RIGHT", "DOWN", "LEFT"}

(***************************************************************************)
(* class Pos                                                               *)
(***************************************************************************)
Pos(r, c) == [row |-> r, col |-> c]

Pos_drow(p, d) == Pos(p.row + d, p.col)

Pos_dcol(p, d) == Pos(p.row, p.col + d)

(***************************************************************************)
(* class Block.  Constructing a Block runs __post_init__, whose assert     *)
(* either lets the value exist or raises AssertionError.                   *)
(***************************************************************************)
AssertionError == [error |-> "AssertionError"]

NoBlock == [none |-> TRUE]

\* Variant: the assert compares the rows only.
post_init_rows_only(p, q) == p.row <= q.row

post_init(p, q) == p.row <= q.row /\ p.col <= q.col

Block(p, q) == IF post_init(p, q) THEN [b1 |-> p, b2 |-> q] ELSE AssertionError

Block_drow(b, d1, d2) == Block(Pos_drow(b.b1, d1), Pos_drow(b.b2, d2))

Block_dcol(b, d1, d2) == Block(Pos_dcol(b.b1, d1), Pos_dcol(b.b2, d2))

is_standing(b) == b.b1 = b.b2

\* Variant: a block lying along a row does not collapse when tilted left.
left_no_collapse(b) ==
    IF is_standing(b) THEN Block_dcol(b, -2, -1)
    ELSE IF b.b1.row = b.b2.row THEN Block_dcol(b, -2, -1)
    ELSE Block_dcol(b, -1, -1)

left(b) ==
    IF is_standing(b) THEN Block_dcol(b, -2, -1)
    ELSE IF b.b1.row = b.b2.row THEN Block_dcol(b, -1, -2)
    ELSE Block_dcol(b, -1, -1)

\* Variant: a block lying along a row is shifted, not collapsed, by a right tilt.
right_shift(b) ==
    IF is_standing(b) THEN Block_dcol(b, 1, 2)
    ELSE IF b.b1.row = b.b2.row THEN Block_dcol(b, 1, 1)
    ELSE Block_dcol(b, 1, 1)

right(b) ==
    IF is_standing(b) THEN Block_dcol(b, 1, 2)
    ELSE IF b.b1.row = b.b2.row THEN Block_dcol(b, 2, 1)
    ELSE Block_dcol(b, 1, 1)

\* Variant: a block lying along a column lands one row too high when tilted up.
up_off_by_one(b) ==
    IF is_standing(b) THEN Block_drow(b, -2, -1)
    ELSE IF b.b1.row = b.b2.row THEN Block_drow(b, -1, -1)
    ELSE Block_drow(b, -2, -3)

up(b) ==
    IF is_standing(b) THEN Block_drow(b, -2, -1)
    ELSE IF b.b1.row = b.b2.row THEN Block_drow(b, -1, -1)
    ELSE Block_drow(b, -1, -2)

\* Variant: a block lying along a column tilted down stands up on its own
\* lower cell.
down_on_own_end(b) ==
    IF is_standing(b) THEN Block_drow(b, 1, 2)
    ELSE IF b.b1.row = b.b2.row THEN Block_drow(b, 1, 1)
    ELSE Block_drow(b, 1, 0)

\* Variant: a standing block tilted down starts on its own cell.
down_from_own_cell(b) ==
    IF is_standing(b) THEN Block_drow(b, 0, 1)
    ELSE IF b.b1.row = b.b2.row THEN Block_drow(b, 1, 1)
    ELSE Block_drow(b, 2, 1)

down(b) ==
    IF is_standing(b) THEN Block_drow(b, 1, 2)
    ELSE IF b.b1.row = b.b2.row THEN Block_drow(b, 1, 1)
    ELSE Block_drow(b, 2, 1)

neighbors(b) ==
    << <<left(b), "LEFT">>, <<right(b), "RIGHT">>,
       <<up(b), "UP">>, <<down(b), "DOWN">> >>

\* The order of the moves in the tuple neighbors() returns.
ReferenceOrder == <<"LEFT", "RIGHT", "UP", "DOWN">>

\* The tilt of b by move m: the method of Block that neighbors() pairs with m.
tilt(b, m) ==
    CASE m = "LEFT" -> left(b)
      [] m = "RIGHT" -> right(b)
      [] m = "UP" -> up(b)
      [] m = "DOWN" -> down(b)

(***************************************************************************)
(* class Solver                                                            *)
(***************************************************************************)
\* Variant: any block whose first cell is the goal counts as done.
done_any_orientation(b, g) == b.b1 = g

done(b, g) == is_standing(b) /\ b.b1 = g

\* Variant: only the first cell of the block is tested.
is_legal_first_cell(t, p, q) == p \in t

is_legal(t, p, q) == p \in t /\ q \in t

\* Variant: the new record goes to the front (a stack, not a queue).
put_front(q, x) == <<x>> \o q

\* queue.Queue: put appends at the back, get takes from the front.
put(q, x) == Append(q, x)

get_item(q) == Head(q)

get_rest(q) == Tail(q)

\* Variant: the dequeued block is not recorded.
explored_add_nothing(expl, b) == expl

\* set.add, line 112.
explored_add(expl, b) == expl \cup {b}

\* Variant: the loop has no test of the explored set.
RECURSIVE for_neighbors_no_explored_test(_, _, _, _, _, _)
for_neighbors_no_explored_test(q, nbrs, i, history, expl, t) ==
    IF i > Len(nbrs) THEN q
    ELSE LET b == nbrs[i][1]
             m == nbrs[i][2]
         IN  IF ~is_legal(t, b.b1, b.b2)
             THEN for_neighbors_no_explored_test(q, nbrs, i + 1, history, expl, t)
             ELSE for_neighbors_no_explored_test(
                      put(q, [block |-> b, history |-> Append(history, m)]),
                      nbrs, i + 1, history, expl, t)

\* Variant: the move is appended to the parent's own list (history.append(m)),
\* so the next neighbour starts from the list already extended.
RECURSIVE for_neighbors_shared_history(_, _, _, _, _, _)
for_neighbors_shared_history(q, nbrs, i, history, expl, t) ==
    IF i > Len(nbrs) THEN q
    ELSE LET b == nbrs[i][1]
             m == nbrs[i][2]
         IN  IF b \in expl
             THEN for_neighbors_shared_history(q, nbrs, i + 1, history, expl, t)
             ELSE IF ~is_legal(t, b.b1, b.b2)
             THEN for_neighbors_shared_history(q, nbrs, i + 1, history, expl, t)
             ELSE for_neighbors_shared_history(
                      put(q, [block |-> b, history |-> Append(history, m)]),
                      nbrs, i + 1, Append(history, m), expl, t)

\* The for loop of solve (lines 114-121) over neighbors[i..4].
RECURSIVE for_neighbors(_, _, _, _, _, _)
for_neighbors(q, nbrs, i, history, expl, t) ==
    IF i > Len(nbrs) THEN q
    ELSE LET b == nbrs[i][1]
             m == nbrs[i][2]
         IN  IF b \in expl
             THEN for_neighbors(q, nbrs, i + 1, history, expl, t)
             ELSE IF ~is_legal(t, b.b1, b.b2)
             THEN for_neighbors(q, nbrs, i + 1, history, expl, t)
             ELSE for_neighbors(put(q, [block |-> b, history |-> Append(history, m)]),
                                nbrs, i + 1, history, expl, t)

(***************************************************************************)
(* The inputs of the model.                                                *)
(***************************************************************************)
\* The scenario of the specification: rows 0..2, columns 0..3 traversable.
ScenarioTerrain == {Pos(r, c) : r \in 0..2, c \in 0..3}

Board == {Pos(r, c) : r \in 0..MaxRow, c \in 0..MaxCol}

Cells == Board \cup ScenarioTerrain

Terrains ==
    {Board \ H : H \in {S \in SUBSET Board : Cardinality(S) <= MaxHoles}}
        \cup {ScenarioTerrain}

GeomCells == {Pos(r, c) : r \in 0..GeomMax, c \in 0..GeomMax}

(***************************************************************************)
(* Spec: a Solver object.                                                  *)
(***************************************************************************)
GeomIdle ==
    /\ args = <<>>
    /\ origin = NoBlock
    /\ blk = NoBlock
    /\ tilts = <<>>
    /\ raised = FALSE

\* Solver.__init__
Init ==
    /\ terrain \in Terrains
    /\ start \in Cells
    /\ goal \in Cells
    /\ explored = {}
    /\ fifo = <<>>
    /\ pc = "ready"
    /\ result = <<>>
    /\ calls = 0
    /\ dequeued = <<>>
    /\ returns = <<>>
    /\ order = ReferenceOrder
    /\ GeomIdle

\* solve(), line 103: entered on a new object or after an earlier call returned.
SolveCall ==
    /\ pc \in {"ready", "found", "exhausted"}
    /\ calls < MaxCalls
    /\ calls' = calls + 1
    /\ fifo' = put(fifo, [block |-> Block(start, start), history |-> <<>>])
    /\ pc' = "loop"
    /\ dequeued' = <<>>
    /\ UNCHANGED <<terrain, start, goal, explored, result, returns, order>>
    /\ UNCHANGED geomVars

\* Variant: the goal test comes after the expansion of the dequeued record.
ReturnHistoryAfterExpansion ==
    /\ pc = "loop"
    /\ fifo # <<>>
    /\ done(get_item(fifo).block, goal)
    /\ explored' = explored_add(explored, get_item(fifo).block)
    /\ fifo' = for_neighbors(get_rest(fifo), neighbors(get_item(fifo).block), 1,
                             get_item(fifo).history,
                             explored_add(explored, get_item(fifo).block), terrain)
    /\ result' = get_item(fifo).history
    /\ pc' = "found"
    /\ dequeued' = Append(dequeued, get_item(fifo))
    /\ returns' = Append(returns, get_item(fifo).history)
    /\ UNCHANGED <<terrain, start, goal, calls, order>>
    /\ UNCHANGED geomVars

\* Lines 104-109: the dequeued record is a goal record.
ReturnHistory ==
    /\ pc = "loop"
    /\ fifo # <<>>
    /\ done(get_item(fifo).block, goal)
    /\ fifo' = get_rest(fifo)
    /\ result' = get_item(fifo).history
    /\ pc' = "found"
    /\ dequeued' = Append(dequeued, get_item(fifo))
    /\ returns' = Append(returns, get_item(fifo).history)
    /\ UNCHANGED <<terrain, start, goal, explored, calls, order>>
    /\ UNCHANGED geomVars

\* Lines 104-121: one iteration of the loop that expands the dequeued record.
Expand ==
    /\ pc = "loop"
    /\ fifo # <<>>
    /\ ~done(get_item(fifo).block, goal)
    /\ LET block == get_item(fifo).block
           history == get_item(fifo).history
           nbrs == neighbors(block)
       IN  IF \E i \in 1..Len(nbrs) : nbrs[i][1] = AssertionError
           THEN /\ pc' = "raised"
                /\ fifo' = get_rest(fifo)
                /\ UNCHANGED explored
           ELSE /\ pc' = "loop"
                /\ explored' = explored_add(explored, block)
                /\ fifo' = for_neighbors(get_rest(fifo), nbrs, 1, history,
                                         explored_add(explored, block), terrain)
    /\ dequeued' = Append(dequeued, get_item(fifo))
    /\ UNCHANGED <<terrain, start, goal, result, calls, returns, order>>
    /\ UNCHANGED geomVars

\* Variant: the loop has no emptiness test and blocks in get() on an empty queue.
ReturnEmptyBlocks ==
    /\ pc = "loop"
    /\ fifo = <<>>
    /\ UNCHANGED vars

\* Lines 104 and 122: the queue is empty.
ReturnEmpty ==
    /\ pc = "loop"
    /\ fifo = <<>>
    /\ result' = <<>>
    /\ pc' = "exhausted"
    /\ returns' = Append(returns, <<>>)
    /\ UNCHANGED <<terrain, start, goal, fifo, explored, calls, dequeued, order>>
    /\ UNCHANGED geomVars

LoopStep == ReturnHistory \/ Expand \/ ReturnEmpty

Next == SolveCall \/ ReturnHistory \/ Expand \/ ReturnEmpty

Spec == Init /\ [][Next]_vars

\* Once solve() is entered the loop runs to its return: nothing suspends it.
FairSpec == Spec /\ WF_vars(LoopStep)

(***************************************************************************)
(* OrderSpec: one whole call of solve() per step, on a Solver whose        *)
(* neighbors() lists the four tilts in a chosen order.                     *)
(***************************************************************************)
\* neighbors() with the four pairs of its tuple in the order ord.
neighbors_in(b, ord) == [i \in 1..Len(ord) |-> <<tilt(b, ord[i]), ord[i]>>]

\* The while loop of solve (lines 104-122) run to its return from queue q,
\* explored set expl and dequeue log dq.
RECURSIVE solve_loop(_, _, _, _, _, _)
solve_loop(q, expl, dq, ord, t, g) ==
    IF q = <<>>
    THEN [result |-> <<>>, exit |-> "exhausted",
          fifo |-> q, explored |-> expl, dequeued |-> dq]
    ELSE LET block == get_item(q).block
             history == get_item(q).history
             nbrs == neighbors_in(block, ord)
         IN  IF done(block, g)
             THEN [result |-> history, exit |-> "found", fifo |-> get_rest(q),
                   explored |-> expl, dequeued |-> Append(dq, get_item(q))]
             ELSE IF \E i \in 1..Len(nbrs) : nbrs[i][1] = AssertionError
             THEN [result |-> <<>>, exit |-> "raised", fifo |-> get_rest(q),
                   explored |-> expl, dequeued |-> Append(dq, get_item(q))]
             ELSE solve_loop(for_neighbors(get_rest(q), nbrs, 1, history,
                                           explored_add(expl, block), t),
                             explored_add(expl, block),
                             Append(dq, get_item(q)), ord, t, g)

\* The permutations of the four moves.
Orders ==
    {o \in [1..Len(ReferenceOrder) -> Move] :
        \A i \in DOMAIN o : \A j \in DOMAIN o : i # j => o[i] # o[j]}

\* solve() on a new Solver, lines 102-122, with the neighbours in order ord.
solve_in(ord) ==
    solve_loop(put(fifo, [block |-> Block(start, start), history |-> <<>>]),
               explored, <<>>, ord, terrain, goal)

SolveInOrder ==
    /\ pc = "ready"
    /\ calls < MaxCalls
    /\ \E ord \in Orders :
          LET r == solve_in(ord)
          IN  /\ order' = ord
              /\ result' = r.result
              /\ pc' = r.exit
              /\ fifo' = r.fifo
              /\ explored' = r.explored
              /\ dequeued' = r.dequeued
              /\ returns' = Append(returns, r.result)
    /\ calls' = calls + 1
    /\ UNCHANGED <<terrain, start, goal>>
    /\ UNCHANGED geomVars

OrderNext == SolveInOrder

OrderSpec == Init /\ [][OrderNext]_vars

(***************************************************************************)
(* GeomSpec: the Block value type.                                         *)
(***************************************************************************)
GeomInit ==
    /\ terrain = {}
    /\ start = Pos(0, 0)
    /\ goal = Pos(0, 0)
    /\ explored = {}
    /\ fifo = <<>>
    /\ pc = "ready"
    /\ result = <<>>
    /\ calls = 0
    /\ dequeued = <<>>
    /\ returns = <<>>
    /\ order = ReferenceOrder
    /\ GeomIdle

\* Block(p, q) for two arbitrary cells.
Construct ==
    /\ args = <<>>
    /\ \E p \in GeomCells, q \in GeomCells :
          /\ args' = <<p, q>>
          /\ IF Block(p, q) = AssertionError
             THEN /\ raised' = TRUE
                  /\ UNCHANGED <<origin, blk>>
             ELSE /\ raised' = FALSE
                  /\ origin' = Block(p, q)
                  /\ blk' = Block(p, q)
    /\ UNCHANGED tilts
    /\ UNCHANGED solverVars

\* blk.left(), blk.right(), blk.up() or blk.down().
Tilt ==
    /\ blk # NoBlock
    /\ ~raised
    /\ Len(tilts) < MaxTilts
    /\ \E m \in Move :
          /\ tilts' = Append(tilts, m)
          /\ IF tilt(blk, m) = AssertionError
             THEN /\ raised' = TRUE
                  /\ UNCHANGED blk
             ELSE /\ raised' = FALSE
                  /\ blk' = tilt(blk, m)
    /\ UNCHANGED <<args, origin>>
    /\ UNCHANGED solverVars

GeomNext == Construct \/ Tilt

GeomSpec == GeomInit /\ [][GeomNext]_vars

(***************************************************************************)
(* Reference notions the properties are stated with.  They are computed    *)
(* from the terrain and the tilts alone, not from the search.              *)
(***************************************************************************)
Returned == pc \in {"found", "exhausted"}

StartBlock == Block(start, start)

GoalBlock == Block(goal, goal)

\* The terrain-legal tilts of the blocks of S.
LegalTilts(t, S) ==
    {n \in {tilt(b, m) : b \in S, m \in Move} :
        n # AssertionError /\ is_legal(t, n.b1, n.b2)}

\* Least number of terrain-legal tilts from a block of S (reached with k
\* tilts) to the block target; -1 when there is none.
RECURSIVE Distance(_, _, _, _)
Distance(t, S, target, k) ==
    IF target \in S THEN k
    ELSE LET S2 == S \cup LegalTilts(t, S)
         IN  IF S2 = S THEN -1 ELSE Distance(t, S2, target, k + 1)

GraphDistance == Distance(terrain, {StartBlock}, GoalBlock, 0)

GoalReachable == GraphDistance >= 0

\* The blocks after each move of h, applied in order from b.
RECURSIVE Replay(_, _)
Replay(b, h) ==
    IF h = <<>> THEN <<>>
    ELSE IF b = AssertionError THEN <<AssertionError>>
    ELSE <<tilt(b, Head(h))>> \o Replay(tilt(b, Head(h)), Tail(h))

Abs(x) == IF x < 0 THEN -x ELSE x

Adjacent(p, q) ==
    \/ p.row = q.row /\ Abs(p.col - q.col) = 1
    \/ p.col = q.col /\ Abs(p.row - q.row) = 1

LexLeq(p, q) == p.row < q.row \/ (p.row = q.row /\ p.col <= q.col)

WellFormedPair(p, q) == (p = q \/ Adjacent(p, q)) /\ LexLeq(p, q)

WellFormed(b) == b # AssertionError /\ b # NoBlock /\ WellFormedPair(b.b1, b.b2)

Opposite(m) ==
    CASE m = "LEFT" -> "RIGHT"
      [] m = "RIGHT" -> "LEFT"
      [] m = "UP" -> "DOWN"
      [] m = "DOWN" -> "UP"

(***************************************************************************)
(* C1: shortest-path optimality.  When the first solve() of a Solver       *)
(* returns and the standing goal is reachable from the standing start by   *)
(* terrain-legal tilts, the returned list is as long as the graph distance.*)
(***************************************************************************)
C1_ShortestPath ==
    (Returned /\ calls = 1 /\ GoalReachable)
        => Len(result) = GraphDistance

C1_Witness ==
    /\ pc = "found"
    /\ calls = 1
    /\ Len(result) >= 4
    /\ Len(result) = GraphDistance

(***************************************************************************)
(* C2: legality of the result.  A non-empty returned list, replayed with   *)
(* tilt from the standing start, passes only over blocks whose two cells   *)
(* are traversable and ends standing on the goal.                          *)
(***************************************************************************)
C2_ResultLegal ==
    (Returned /\ result # <<>>)
        => LET tr == Replay(StartBlock, result)
           IN  /\ Len(tr) = Len(result)
               /\ \A i \in 1..Len(tr) :
                     /\ tr[i] # AssertionError
                     /\ tr[i].b1 \in terrain
                     /\ tr[i].b2 \in terrain
               /\ tr[Len(tr)] = GoalBlock

C2_Witness ==
    /\ pc = "found"
    /\ Len(result) >= 3
    /\ \E i \in 1..Len(result) : result[i] \in {"UP", "DOWN"}
    /\ \E i \in 1..Len(result) : result[i] \in {"LEFT", "RIGHT"}
    /\ Replay(StartBlock, result)[Len(result)] = GoalBlock

(***************************************************************************)
(* C3: unreachable goal.  When no sequence of terrain-legal tilts leads    *)
(* from the standing start to the standing goal, solve() returns only      *)
(* through the empty-queue exit, with the empty list.                      *)
(***************************************************************************)
C3_Unreachable ==
    (Returned /\ start # goal /\ ~GoalReachable)
        => (pc = "exhausted" /\ result = <<>> /\ fifo = <<>>)

C3_Witness ==
    /\ pc = "exhausted"
    /\ result = <<>>
    /\ start # goal
    /\ goal \in terrain
    /\ Cardinality(explored) >= 3
    /\ ~GoalReachable

(***************************************************************************)
(* C4: already solved.  With goal = start the first solve() returns the    *)
(* empty list at its first dequeue: nothing was expanded or enqueued,      *)
(* whatever the terrain says about the start cell.                         *)
(***************************************************************************)
C4_AlreadySolved ==
    (goal = start /\ calls = 1 /\ pc # "loop")
        => /\ pc = "found"
           /\ result = <<>>
           /\ explored = {}
           /\ fifo = <<>>

C4_Witness ==
    /\ goal = start
    /\ start \notin terrain
    /\ calls = 1
    /\ pc = "found"
    /\ result = <<>>

(***************************************************************************)
(* C5: termination.  On a finite terrain a solve() that entered its loop   *)
(* eventually returns, with the goal found or with the queue empty.        *)
(***************************************************************************)
C5_Termination == (pc = "loop") ~> Returned

C5_Witness ==
    /\ pc = "exhausted"
    /\ calls = 1
    /\ Cardinality(explored) >= 4

(***************************************************************************)
(* C6: the scenario.  Rows 0..2 and columns 0..3 traversable, start (0,0), *)
(* goal (0,3): the first solve() returns [RIGHT, RIGHT].                   *)
(***************************************************************************)
Scenario ==
    /\ terrain = ScenarioTerrain
    /\ start = Pos(0, 0)
    /\ goal = Pos(0, 3)

C6_Scenario ==
    (Scenario /\ calls = 1 /\ Returned) => result = <<"RIGHT", "RIGHT">>

C6_Witness ==
    /\ Scenario
    /\ calls = 1
    /\ pc = "found"
    /\ result = <<"RIGHT", "RIGHT">>

(***************************************************************************)
(* C7: rejection at construction.  As claimed: Block(p, q) raises for      *)
(* every pair of cells that is not well formed (identical or adjacent,     *)
(* and in lexicographic order).                                            *)
(***************************************************************************)
C7_MalformedRejected ==
    (args # <<>> /\ ~WellFormedPair(args[1], args[2]))
        => (raised /\ origin = NoBlock)

(***************************************************************************)
(* C7, as the code has it: Block(p, q) raises for every pair of cells that *)
(* is not in lexicographic order, and no Block value comes to exist.       *)
(***************************************************************************)
C7_UnorderedRejected ==
    (args # <<>> /\ ~LexLeq(args[1], args[2]))
        => (raised /\ origin = NoBlock /\ blk = NoBlock)

C7_Witness ==
    /\ args # <<>>
    /\ ~LexLeq(args[1], args[2])
    /\ args[1].row = args[2].row
    /\ raised

(***************************************************************************)
(* C8: tilt is total and keeps blocks well formed.  From a well-formed     *)
(* block no sequence of tilts raises, and every block it passes is well    *)
(* formed again.                                                           *)
(***************************************************************************)
C8_TiltWellFormed ==
    (origin # NoBlock /\ WellFormed(origin))
        => (~raised /\ WellFormed(blk))

C8_Witness ==
    /\ WellFormed(origin)
    /\ ~is_standing(origin)
    /\ Len(tilts) = MaxTilts
    /\ WellFormed(blk)
    /\ blk # origin

\* The same under Spec: solve() never trips the assertion, and every block in
\* the queue or in the explored set is well formed.
SolverBlocksWellFormed ==
    /\ pc # "raised"
    /\ \A b \in explored : WellFormed(b)
    /\ \A i \in 1..Len(fifo) : WellFormed(fifo[i].block)

(***************************************************************************)
(* C9: geometry round trip.  A standing block tilted in a direction and    *)
(* then in the opposite one, if standing again, is the block it was.       *)
(***************************************************************************)
C9_RoundTrip ==
    (/\ origin # NoBlock
     /\ is_standing(origin)
     /\ Len(tilts) = 2
     /\ tilts[2] = Opposite(tilts[1])
     /\ ~raised
     /\ is_standing(blk))
        => blk = origin

C9_Witness ==
    /\ origin # NoBlock
    /\ is_standing(origin)
    /\ tilts = <<"DOWN", "UP">>
    /\ ~raised
    /\ is_standing(blk)
    /\ blk = origin

(***************************************************************************)
(* C10: standing tilt rule.  A standing block at (r, c) tilted once lies   *)
(* on the cell one step and the cell two steps away in that direction.     *)
(***************************************************************************)
StandingTiltCells(p, m) ==
    CASE m = "RIGHT" -> {Pos(p.row, p.col + 1), Pos(p.row, p.col + 2)}
      [] m = "LEFT" -> {Pos(p.row, p.col - 2), Pos(p.row, p.col - 1)}
      [] m = "DOWN" -> {Pos(p.row + 1, p.col), Pos(p.row + 2, p.col)}
      [] m = "UP" -> {Pos(p.row - 2, p.col), Pos(p.row - 1, p.col)}

C10_StandingTilt ==
    (origin # NoBlock /\ is_standing(origin) /\ Len(tilts) = 1)
        => /\ ~raised
           /\ ~is_standing(blk)
           /\ {blk.b1, blk.b2} = StandingTiltCells(origin.b1, tilts[1])

C10_Witness ==
    /\ origin # NoBlock
    /\ is_standing(origin)
    /\ tilts = <<"DOWN">>
    /\ {blk.b1, blk.b2} = StandingTiltCells(origin.b1, "DOWN")

(***************************************************************************)
(* C11: lying tilt rule.  A lying block tilted along its long axis stands  *)
(* up on the cell one beyond its end in the direction of travel; tilted    *)
(* across its long axis it keeps its orientation and both cells move by    *)
(* one in that direction.                                                  *)
(***************************************************************************)
Standing(r, c) == [b1 |-> Pos(r, c), b2 |-> Pos(r, c)]

Shifted(b, dr, dc) ==
    [b1 |-> Pos(b.b1.row + dr, b.b1.col + dc),
     b2 |-> Pos(b.b2.row + dr, b.b2.col + dc)]

\* b lies on (r, c) and (r, c + 1), or on (r, c) and (r + 1, c).
LyingTiltResult(b, m) ==
    LET r == b.b1.row
        c == b.b1.col
    IN  IF b.b1.row = b.b2.row
        THEN CASE m = "LEFT" -> Standing(r, c - 1)
               [] m = "RIGHT" -> Standing(r, c + 2)
               [] m = "UP" -> Shifted(b, -1, 0)
               [] m = "DOWN" -> Shifted(b, 1, 0)
        ELSE CASE m = "UP" -> Standing(r - 1, c)
               [] m = "DOWN" -> Standing(r + 2, c)
               [] m = "LEFT" -> Shifted(b, 0, -1)
               [] m = "RIGHT" -> Shifted(b, 0, 1)

C11_LyingTilt ==
    (/\ origin # NoBlock
     /\ WellFormed(origin)
     /\ ~is_standing(origin)
     /\ Len(tilts) = 1)
        => (~raised /\ blk = LyingTiltResult(origin, tilts[1]))

C11_Witness ==
    /\ origin # NoBlock
    /\ WellFormed(origin)
    /\ origin.b1.col = origin.b2.col
    /\ origin.b1.row + 1 = origin.b2.row
    /\ tilts = <<"DOWN">>
    /\ blk = Standing(origin.b1.row + 2, origin.b1.col)

(***************************************************************************)
(* C12: each configuration is expanded at most once.  As claimed: among    *)
(* the records one call of solve() took from the queue and expanded (the   *)
(* ones that were not goal records), no block occurs twice.                *)
(***************************************************************************)
ExpandedAt(i) == ~done(dequeued[i].block, goal)

C12_ExpandedOnce ==
    \A i \in 1..Len(dequeued) : \A j \in 1..Len(dequeued) :
        (i < j /\ ExpandedAt(i) /\ ExpandedAt(j))
            => dequeued[i].block # dequeued[j].block

(***************************************************************************)
(* C13: fresh search state per call.  As claimed: when a call of solve()   *)
(* has put the start record and not yet taken a record from the queue,     *)
(* the explored set is empty and the queue holds that record alone: the    *)
(* standing block at start with an empty history.                          *)
(***************************************************************************)
CallStarted == pc = "loop" /\ dequeued = <<>>

C13_FreshState ==
    CallStarted
        => /\ explored = {}
           /\ fifo = << [block |-> StartBlock, history |-> <<>>] >>

(***************************************************************************)
(* C14: enqueue guards.  Every record an expansion of (B, H) adds to the   *)
(* queue is (tilt of B by m, H + [m]) for a move m, its block is not in    *)
(* the explored set at that moment and both its cells are traversable;     *)
(* and in every state every queued record other than a start record (the   *)
(* one with the empty history) has both cells traversable.                 *)
(***************************************************************************)
Traversable(b) == b.b1 \in terrain /\ b.b2 \in terrain

QueuedTraversable ==
    \A i \in 1..Len(fifo) : fifo[i].history # <<>> => Traversable(fifo[i].block)

\* A step of the loop that expanded the record at the front of the queue.
ExpansionStep == pc = "loop" /\ pc' = "loop" /\ fifo # <<>>

EnqueuedGuarded ==
    ExpansionStep =>
        LET parent == Head(fifo)
            kept == Len(fifo) - 1
        IN  /\ Len(fifo') >= kept
            /\ \A i \in 1..kept : fifo'[i] = fifo[i + 1]
            /\ \A i \in (kept + 1)..Len(fifo') :
                  /\ \E m \in Move :
                        /\ fifo'[i].block = tilt(parent.block, m)
                        /\ fifo'[i].history = Append(parent.history, m)
                  /\ fifo'[i].block \notin explored'
                  /\ Traversable(fifo'[i].block)

C14_EnqueueGuards == []QueuedTraversable /\ [][EnqueuedGuarded]_vars

\* The last expansion enqueued a record, skipped an explored neighbour and
\* skipped a neighbour off the terrain.
C14_Witness ==
    /\ pc = "loop"
    /\ dequeued # <<>>
    /\ fifo # <<>>
    /\ LET parent == dequeued[Len(dequeued)]
           last == fifo[Len(fifo)]
       IN  /\ \E m \in Move :
                 /\ last.block = tilt(parent.block, m)
                 /\ last.history = Append(parent.history, m)
                 /\ Traversable(last.block)
           /\ \E m \in Move : tilt(parent.block, m) \in explored
           /\ \E m \in Move :
                 /\ ~Traversable(tilt(parent.block, m))
                 /\ tilt(parent.block, m) \notin explored

(***************************************************************************)
(* C15: goal detection at dequeue with immediate return.  When the record  *)
(* at the front of the queue stands on the goal cell, the next step of the *)
(* loop returns its history, leaves the explored set as it is and enqueues *)
(* nothing; it is the first such record the call dequeued.  solve()        *)
(* returns through line 109 in no other case (a lying block covering the   *)
(* goal is expanded like any other), and a non-empty result comes from     *)
(* that return only.                                                       *)
(***************************************************************************)
StandsOnGoal(b) == b.b1 = goal /\ b.b2 = goal

CoversGoalLying(b) == b.b1 # b.b2 /\ goal \in {b.b1, b.b2}

GoalReturnStep ==
    /\ (pc = "loop" /\ fifo # <<>> /\ StandsOnGoal(Head(fifo).block) /\ pc' # pc)
          => /\ pc' = "found"
             /\ result' = Head(fifo).history
             /\ explored' = explored
             /\ fifo' = Tail(fifo)
    /\ (pc = "loop" /\ pc' = "found")
          => (fifo # <<>> /\ StandsOnGoal(Head(fifo).block))
    /\ (pc = "loop" /\ pc' = "loop" /\ fifo # <<>>)
          => ~StandsOnGoal(Head(fifo).block)
    /\ (result' # result /\ result' # <<>>)
          => (pc = "loop" /\ pc' = "found")

FirstGoalRecordReturns ==
    \A i \in 1..Len(dequeued) :
        StandsOnGoal(dequeued[i].block)
            => (i = Len(dequeued) /\ pc = "found" /\ result = dequeued[i].history)

C15_GoalReturn == []FirstGoalRecordReturns /\ [][GoalReturnStep]_vars

\* A call returned a path after it had dequeued and expanded a lying block
\* that covers the goal cell.
C15_Witness ==
    /\ pc = "found"
    /\ Len(result) >= 2
    /\ StandsOnGoal(dequeued[Len(dequeued)].block)
    /\ \E i \in 1..(Len(dequeued) - 1) :
          /\ CoversGoalLying(dequeued[i].block)
          /\ dequeued[i].block \in explored

(***************************************************************************)
(* C16: explored set contents and monotonicity.  During the first call of  *)
(* solve() on a Solver the explored set is exactly the set of the blocks   *)
(* of the records dequeued so far that were not goal records (so it is     *)
(* empty when the call starts), and no step ever removes an element.       *)
(***************************************************************************)
NonGoalDequeued ==
    {dequeued[i].block : i \in {j \in 1..Len(dequeued) : ~StandsOnGoal(dequeued[j].block)}}

ExploredIsDequeued == calls <= 1 => explored = NonGoalDequeued

ExploredGrows == explored \subseteq explored'

C16_Explored == []ExploredIsDequeued /\ [][ExploredGrows]_vars

\* A first call returned a path after dequeuing some block more than once.
C16_Witness ==
    /\ calls = 1
    /\ pc = "found"
    /\ Cardinality(explored) >= 3
    /\ explored = NonGoalDequeued
    /\ Len(dequeued) > Cardinality(explored) + 1

(***************************************************************************)
(* C17: the neighbour order does not change the result length.  Whatever   *)
(* permutation of LEFT, RIGHT, UP, DOWN the neighbours are enumerated in,  *)
(* the first solve() of a Solver returns a list as long as the one it      *)
(* returns with the order LEFT, RIGHT, UP, DOWN (and empty when that one   *)
(* is empty).                                                              *)
(***************************************************************************)
\* The first solve() of a Solver with the order of neighbors().
ReferenceRun ==
    solve_loop(<<[block |-> StartBlock, history |-> <<>>]>>, {}, <<>>,
               ReferenceOrder, terrain, goal)

C17_OrderIndependent ==
    pc # "ready"
        => LET r == ReferenceRun
           IN  /\ pc # "raised"
               /\ Len(result) = Len(r.result)
               /\ pc = r.exit

\* Another order returned another path of the same length.
C17_Witness ==
    /\ pc = "found"
    /\ order # ReferenceOrder
    /\ Len(result) >= 3
    /\ result # ReferenceRun.result
    /\ Len(result) = Len(ReferenceRun.result)

\* Under Spec: the step-by-step first call ends as solve_loop says, run with
\* the order of neighbors().
StepwiseAgrees ==
    (Returned /\ calls = 1)
        => LET r == ReferenceRun
           IN  /\ result = r.result
               /\ pc = r.exit
               /\ fifo = r.fifo
               /\ explored = r.explored
               /\ dequeued = r.dequeued

(***************************************************************************)
(* C18: history consistency.  In every reachable state every queued record *)
(* (B, H) has B equal to the block the moves of H lead to, applied in      *)
(* order with tilt from the standing block at start; and an expansion      *)
(* gives each successor record its parent's history with one move          *)
(* appended, the parent's record and the other queued records staying as   *)
(* they were.                                                              *)
(***************************************************************************)
BlockAfter(b, h) == IF h = <<>> THEN b ELSE Replay(b, h)[Len(h)]

HistoriesReplay ==
    \A i \in 1..Len(fifo) : fifo[i].block = BlockAfter(StartBlock, fifo[i].history)

HistoryExtended ==
    ExpansionStep =>
        LET parent == Head(fifo)
            kept == Len(fifo) - 1
        IN  /\ dequeued' = Append(dequeued, parent)
            /\ \A i \in 1..kept : fifo'[i] = fifo[i + 1]
            /\ \A i \in (kept + 1)..Len(fifo') :
                  /\ Len(fifo'[i].history) = Len(parent.history) + 1
                  /\ SubSeq(fifo'[i].history, 1, Len(parent.history)) = parent.history
                  /\ fifo'[i].history[Len(parent.history) + 1] \in Move

C18_HistoryConsistent == []HistoriesReplay /\ [][HistoryExtended]_vars

\* An expansion has just enqueued two successors of a record with a history
\* of two moves or more.
C18_Witness ==
    /\ pc = "loop"
    /\ dequeued # <<>>
    /\ Len(fifo) >= 2
    /\ LET parent == dequeued[Len(dequeued)]
           n == Len(fifo)
       IN  /\ Len(parent.history) >= 2
           /\ fifo[n].history # fifo[n - 1].history
           /\ \A i \in {n - 1, n} :
                 /\ Len(fifo[i].history) = Len(parent.history) + 1
                 /\ SubSeq(fifo[i].history, 1, Len(parent.history)) = parent.history
                 /\ fifo[i].block = BlockAfter(StartBlock, fifo[i].history)

(***************************************************************************)
(* C19: FIFO level order.  During the first call of solve() on a Solver    *)
(* the history lengths of the queued records never decrease from the       *)
(* front to the back of the queue, the last is at most one more than the   *)
(* first, and the records were dequeued in non-decreasing order of         *)
(* history length.                                                         *)
(***************************************************************************)
NonDecreasingLengths(q) ==
    \A i \in 1..Len(q) : \A j \in 1..Len(q) :
        i < j => Len(q[i].history) <= Len(q[j].history)

C19_LevelOrder ==
    calls <= 1
        => /\ NonDecreasingLengths(fifo)
           /\ fifo # <<>>
                 => Len(fifo[Len(fifo)].history) <= Len(fifo[1].history) + 1
           /\ NonDecreasingLengths(dequeued)
           /\ (dequeued # <<>> /\ fifo # <<>>)
                 => Len(dequeued[Len(dequeued)].history) <= Len(fifo[1].history)

\* The queue holds records of two levels.
C19_Witness ==
    /\ calls = 1
    /\ pc = "loop"
    /\ Len(fifo) >= 3
    /\ Len(fifo[1].history) >= 2
    /\ Len(fifo[Len(fifo)].history) = Len(fifo[1].history) + 1
    /\ Len(dequeued) >= 3

(***************************************************************************)
(* C20: repeatable solve.  As claimed: a second solve() on the same Solver *)
(* returns a list as long as the one its first solve() returned.           *)
(***************************************************************************)
C20_Repeatable ==
    Len(returns) >= 2 => Len(returns[2]) = Len(returns[1])

====
